---- MODULE Spec2Model ----
(***************************************************************************)
(* A model of git-mermaid: the gitGraph node classes and their rendering   *)
(* (git_mermaid/mermaid.py) and the repository walk (git_mermaid/git.py).  *)
(*                                                                         *)
(* Python values are modelled as follows.                                  *)
(*   str            a sequence of one-character strings, so that string    *)
(*                  concatenation, slicing and searching are computed      *)
(*   Optional[T]    None is <<>>, a present value v is <<v>>               *)
(*   object         a record with a cls field and one field per attribute  *)
(*   dict           a function from keys (TLA+ strings) to values          *)
(* Class, attribute and exception names are TLA+ strings.                  *)
(***************************************************************************)
EXTENDS Integers, Sequences, FiniteSets, TLC

VARIABLES
    pc,        \* position of the running call: "call", a loop label, "done"
    arg,       \* the argument of the call (self, src, kwargs or the repo)
    res,       \* the value returned (Optional), None until the call returns
    exc,       \* the exception the call raised, "none" when it raised none
    commits,   \* nodes_from_repo: the local list `commits`
    branches,  \* nodes_from_repo: the local dict `branches`
    heads      \* nodes_from_repo: what the iterator over repo.heads still holds

vars == <<pc, arg, res, exc, commits, branches, heads>>

-----------------------------------------------------------------------------
(* Bounds of the model *)

\* Branch.order ranges over 0..MaxOrder (two digits are reached).
MaxOrder == 11
\* The font sizes of ThemeVariables range over 0..MaxFontSize.
MaxFontSize == 1
\* Length of a commit hash (longer than the 7 characters from_git keeps).
ShaLen == 8
\* Number of commits of a repository, at most.
MaxCommits == 3

-----------------------------------------------------------------------------
(* Python values *)

None == <<>>
Some(v) == <<v>>
IsNone(o) == o = <<>>
Val(o) == o[1]

\* Whether string sub occurs in string s.
Contains(s, sub) ==
    \E i \in 1..(Len(s) - Len(sub) + 1) : SubSeq(s, i, i + Len(sub) - 1) = sub

\* Whether string s begins with string p.
StartsWith(s, p) == Len(p) <= Len(s) /\ SubSeq(s, 1, Len(p)) = p

\* The first space-separated word of s.
FirstWord(s) ==
    IF \E i \in 1..Len(s) : s[i] = " "
    THEN SubSeq(s, 1, (CHOOSE i \in 1..Len(s) :
                          s[i] = " " /\ \A j \in 1..(i - 1) : s[j] # " ") - 1)
    ELSE s

\* The number of lines of s.
Lines(s) == 1 + Cardinality({i \in 1..Len(s) : s[i] = "\n"})

Digits == <<"0", "1", "2", "3", "4", "5", "6", "7", "8", "9">>

RECURSIVE NatStr(_)
NatStr(n) ==
    IF n < 10 THEN <<Digits[n + 1]>>
    ELSE NatStr(n \div 10) \o <<Digits[(n % 10) + 1]>>

\* str(n) of an int, as an f-string formats it.
IntStr(n) == IF n < 0 THEN <<"-">> \o NatStr(-n) ELSE NatStr(n)

-----------------------------------------------------------------------------
(* String literals of mermaid.py *)

sCommit == <<"c", "o", "m", "m", "i", "t">>
sBranch == <<"b", "r", "a", "n", "c", "h">>
sCheckout == <<"c", "h", "e", "c", "k", "o", "u", "t">>
sMerge == <<"m", "e", "r", "g", "e">>
sId == <<"i", "d">>
sType == <<"t", "y", "p", "e">>
sTag == <<"t", "a", "g">>
sOrder == <<"o", "r", "d", "e", "r">>
sNORMAL == <<"N", "O", "R", "M", "A", "L">>
sREVERSE == <<"R", "E", "V", "E", "R", "S", "E">>
sHIGHLIGHT == <<"H", "I", "G", "H", "L", "I", "G", "H", "T">>
sPx == <<"p", "x">>

DISPLAY_TYPE == {sNORMAL, sREVERSE, sHIGHLIGHT}

-----------------------------------------------------------------------------
(* The node classes *)

Commit(id, type, tag) == [cls |-> "Commit", id |-> id, type |-> type, tag |-> tag]
Branch(name, order) == [cls |-> "Branch", name |-> name, order |-> order]
Checkout(name) == [cls |-> "Checkout", name |-> name]
Merge(branch, id, tag, type) ==
    [cls |-> "Merge", branch |-> branch, id |-> id, tag |-> tag, type |-> type]

\* dataclasses.asdict(self).items(): the fields in declaration order, each a
\* <<key, value>> pair with the value as an Optional.
asdict(self) ==
    IF self.cls = "Commit"
    THEN << <<sId, self.id>>, <<sType, self.type>>, <<sTag, self.tag>> >>
    ELSE << <<sBranch, Some(self.branch)>>, <<sId, self.id>>,
            <<sTag, self.tag>>, <<sType, self.type>> >>

\* An attribute formatted without the case for the type: always quoted.
AttrTokenAlwaysQuoted(key, val) ==
    <<" ">> \o key \o <<":", "\"">> \o val \o <<"\"">>

\* The f-string of one attribute: f' {key}:{val}' for the type, and
\* f" {key}:\"{val}\"" for every other key.
AttrToken(key, val) ==
    IF key = sType
    THEN <<" ">> \o key \o <<":">> \o val
    ELSE <<" ">> \o key \o <<":", "\"">> \o val \o <<"\"">>

\* The loop `for key, val in asdict(self).items()` of Commit.__str__ and
\* Merge.__str__, started from r.
RECURSIVE AttrLoop(_, _)
AttrLoop(r, items) ==
    IF items = <<>> THEN r
    ELSE LET key == Head(items)[1]
             val == Head(items)[2]
         IN AttrLoop(IF IsNone(val) THEN r ELSE r \o AttrToken(key, Val(val)),
                     Tail(items))

Commit__str__(self) == AttrLoop(sCommit, asdict(self))

Branch__str__(self) ==
    LET r == sBranch \o <<" ">> \o self.name
    IN IF IsNone(self.order) THEN r
       ELSE r \o <<" ">> \o sOrder \o <<":", " ">> \o IntStr(Val(self.order))

Checkout__str__(self) == sCheckout \o <<" ">> \o self.name

Merge__str__(self) == AttrLoop(sCheckout \o <<" ">> \o self.branch, asdict(self))

\* str(node): the __str__ of the node's class.
Str(self) ==
    CASE self.cls = "Commit" -> Commit__str__(self)
      [] self.cls = "Branch" -> Branch__str__(self)
      [] self.cls = "Checkout" -> Checkout__str__(self)
      [] self.cls = "Merge" -> Merge__str__(self)

-----------------------------------------------------------------------------
(* Rendering: str(node) for every node over small value sets *)

Ids == {<<"a", "1">>, <<"b", "2", "c">>}
Tags == {<<"v", "1">>, <<"v", "2">>}
Names == {<<"m", "a", "i", "n">>, <<"d", "e", "v">>}
Opt(S) == {None} \cup {Some(v) : v \in S}

CommitNodes == {Commit(i, t, g) : i \in Opt(Ids), t \in Opt(DISPLAY_TYPE), g \in Opt(Tags)}
MergeNodes ==
    UNION {{Merge(b, i, g, t) : i \in Opt(Ids), g \in Opt(Tags), t \in Opt(DISPLAY_TYPE)}
           : b \in Names}
BranchNodes == {Branch(n, o) : n \in Names, o \in Opt(0..MaxOrder)}
CheckoutNodes == {Checkout(n) : n \in Names}
Nodes == CommitNodes \cup MergeNodes \cup BranchNodes \cup CheckoutNodes

NoRepoLocals == commits = <<>> /\ branches = <<>> /\ heads = <<>>

InitStr ==
    /\ pc = "call"
    /\ arg \in Nodes
    /\ res = None
    /\ exc = "none"
    /\ NoRepoLocals

\* str(arg)
StrCall ==
    /\ pc = "call"
    /\ res' = Some(Str(arg))
    /\ pc' = "done"
    /\ UNCHANGED <<arg, exc, commits, branches, heads>>

NextStr == StrCall

SpecStr == InitStr /\ [][NextStr]_vars

-----------------------------------------------------------------------------
(* Claims about rendering *)

sp == <<" ">>
colon == <<":">>
quote == <<"\"">>
Rendered == Val(res)
IsCommitOrMerge == arg.cls \in {"Commit", "Merge"}

\* The attribute token of key with a quoted value, and with a bare value.
QuotedToken(key, v) == sp \o key \o colon \o quote \o v \o quote
BareToken(key, v) == sp \o key \o colon \o v
\* Whether the line holds any token of the key.
HasKey(line, key) == Contains(line, sp \o key \o colon)

\* C5 as stated: rendering a Commit or a Merge emits an attribute token for a
\* field only when the field is non-null and differs from its default: the
\* default display type NORMAL renders with no type token, a null id or tag
\* renders with no id or tag token, string-valued fields are quoted and the
\* display type is emitted bare.
C5_Original ==
    (pc = "done" /\ IsCommitOrMerge) =>
        /\ HasKey(Rendered, sType) => (~IsNone(arg.type) /\ arg.type # Some(sNORMAL))
        /\ HasKey(Rendered, sId) => ~IsNone(arg.id)
        /\ HasKey(Rendered, sTag) => ~IsNone(arg.tag)
        /\ ~IsNone(arg.id) => Contains(Rendered, QuotedToken(sId, Val(arg.id)))
        /\ ~IsNone(arg.tag) => Contains(Rendered, QuotedToken(sTag, Val(arg.tag)))
        /\ HasKey(Rendered, sType) =>
              /\ Contains(Rendered, BareToken(sType, Val(arg.type)))
              /\ ~Contains(Rendered, sp \o sType \o colon \o quote)

\* C5 as amended: rendering a Commit or a Merge emits an attribute token for a
\* field exactly when the field is non-null, whether or not it equals its
\* default: the default display type NORMAL renders with the token type:NORMAL,
\* a null id, tag or type renders with no id, tag or type token, string-valued
\* fields (the branch of a Merge among them) are quoted and the display type is
\* emitted bare.
C5_NonNullFieldsEmitted ==
    (pc = "done" /\ IsCommitOrMerge) =>
        /\ HasKey(Rendered, sType) <=> ~IsNone(arg.type)
        /\ HasKey(Rendered, sId) <=> ~IsNone(arg.id)
        /\ HasKey(Rendered, sTag) <=> ~IsNone(arg.tag)
        /\ arg.type = Some(sNORMAL) => Contains(Rendered, BareToken(sType, sNORMAL))
        /\ ~IsNone(arg.id) => Contains(Rendered, QuotedToken(sId, Val(arg.id)))
        /\ ~IsNone(arg.tag) => Contains(Rendered, QuotedToken(sTag, Val(arg.tag)))
        /\ arg.cls = "Merge" => Contains(Rendered, QuotedToken(sBranch, arg.branch))
        /\ ~IsNone(arg.type) =>
              /\ Contains(Rendered, BareToken(sType, Val(arg.type)))
              /\ ~Contains(Rendered, sp \o sType \o colon \o quote)

\* A Merge of default display type, with a tag and no id, has been rendered.
C5_Witness ==
    /\ pc = "done"
    /\ arg.cls = "Merge"
    /\ arg.type = Some(sNORMAL)
    /\ IsNone(arg.id)
    /\ ~IsNone(arg.tag)
    /\ Contains(Rendered, BareToken(sType, sNORMAL))

\* The command keyword of each operation variant in the gitGraph syntax.
Keyword(cls) ==
    CASE cls = "Commit" -> sCommit
      [] cls = "Branch" -> sBranch
      [] cls = "Checkout" -> sCheckout
      [] cls = "Merge" -> sMerge

\* C10 as stated: each of the four operation variants renders to exactly one
\* line that begins with its own command keyword; a Merge of branch b renders
\* to a line that begins with the merge keyword followed by b, never with the
\* checkout keyword, so the first word of a rendering tells the variant.
C10_KeywordPerVariant ==
    pc = "done" =>
        /\ Lines(Rendered) = 1
        /\ FirstWord(Rendered) = Keyword(arg.cls)
        /\ arg.cls = "Merge" =>
              /\ StartsWith(Rendered, sMerge \o sp \o arg.branch)
              /\ ~StartsWith(Rendered, sCheckout)

-----------------------------------------------------------------------------
(* Construction: cls(kwargs...) *)

sLR == <<"L", "R">>
sTB == <<"T", "B">>
sBase == <<"b", "a", "s", "e">>
sForest == <<"f", "o", "r", "e", "s", "t">>
sDark == <<"d", "a", "r", "k">>
sDefault == <<"d", "e", "f", "a", "u", "l", "t">>
sNeutral == <<"n", "e", "u", "t", "r", "a", "l">>
sMain == <<"m", "a", "i", "n">>

\* The values the annotations of Graph.orientation and Graph.theme list.
ORIENTATIONS == {sLR, sTB}
THEMES == {sBase, sForest, sDark, sDefault, sNeutral}

\* The subclasses of Node, and those that define __str__, the one abstract
\* method Node declares.
NodeClasses == {"Commit", "Branch", "Checkout", "Merge", "CherryPick"}
DefinesStr == {"Commit", "Branch", "Checkout", "Merge"}

\* cls.__abstractmethods__, as ABCMeta computes it.
AbstractMethods(cls) ==
    IF cls \in NodeClasses /\ cls \notin DefinesStr THEN {"__str__"} ELSE {}

\* The outcome of a call: the object returned, or the exception raised.
Returns(obj) == [res |-> Some(obj), exc |-> "none"]
Raises(e) == [res |-> None, exc |-> e]

\* CherryPick.__init__(self, kwargs...)
CherryPick__init__(kwargs) == Raises("NotImplementedError")

\* The fields of Graph with a default, and the defaults.
GraphDefaults ==
    [showBranches |-> TRUE, showCommitLabel |-> TRUE, mainBranchName |-> sMain,
     mainBranchOrder |-> 0, rotateCommitLabel |-> TRUE, orientation |-> sLR,
     theme |-> sBase, themeVariables |-> None]
GraphFields == {"nodes"} \cup DOMAIN GraphDefaults

\* Graph.__init__(self, kwargs...), as @dataclass generates it: every field is
\* assigned from its argument or its default.
Graph__init__(kwargs) ==
    IF "nodes" \notin DOMAIN kwargs \/ ~(DOMAIN kwargs \subseteq GraphFields)
    THEN Raises("TypeError")
    ELSE Returns([f \in {"cls"} \cup GraphFields |->
                    IF f = "cls" THEN "Graph"
                    ELSE IF f \in DOMAIN kwargs THEN kwargs[f]
                    ELSE GraphDefaults[f]])

\* cls(kwargs...): object.__new__ refuses a class with abstract methods, then
\* the __init__ of the class runs.
New(cls, kwargs) ==
    IF AbstractMethods(cls) # {} THEN Raises("TypeError")
    ELSE CASE cls = "CherryPick" -> CherryPick__init__(kwargs)
           [] cls = "Graph" -> Graph__init__(kwargs)

\* Keyword arguments: K, and every k of K with the key bound to a value of V.
WithKey(K, key, V) == K \cup {k @@ (key :> v) : k \in K, v \in V}
NoKwargs == [x \in {} |-> None]

CherryPickKwargs == WithKey(WithKey({NoKwargs}, "id", Ids), "parent", Ids)
GraphKwargs ==
    WithKey(WithKey(WithKey(WithKey({NoKwargs},
        "nodes", {<<>>, <<Commit(None, Some(sNORMAL), None)>>}),
        "orientation", ORIENTATIONS \cup {<<"R", "L">>}),
        "theme", THEMES \cup {<<"n", "e", "o", "n">>}),
        "showBranches", BOOLEAN)

InitNew ==
    /\ pc = "call"
    /\ arg \in {[cls |-> "CherryPick", kwargs |-> k] : k \in CherryPickKwargs}
              \cup {[cls |-> "Graph", kwargs |-> k] : k \in GraphKwargs}
    /\ res = None
    /\ exc = "none"
    /\ NoRepoLocals

\* CherryPick(kwargs...)
NewCherryPick ==
    /\ pc = "call"
    /\ arg.cls = "CherryPick"
    /\ res' = New("CherryPick", arg.kwargs).res
    /\ exc' = New("CherryPick", arg.kwargs).exc
    /\ pc' = "done"
    /\ UNCHANGED <<arg, commits, branches, heads>>

\* Graph(kwargs...)
NewGraph ==
    /\ pc = "call"
    /\ arg.cls = "Graph"
    /\ res' = New("Graph", arg.kwargs).res
    /\ exc' = New("Graph", arg.kwargs).exc
    /\ pc' = "done"
    /\ UNCHANGED <<arg, commits, branches, heads>>

NextNew == NewCherryPick \/ NewGraph

SpecNew == InitNew /\ [][NextNew]_vars

\* C6 as stated: constructing CherryPick with any keyword arguments fails with
\* the not-supported error (the NotImplementedError of CherryPick.__init__),
\* yields no CherryPick object, and so nothing to render into a document.
C6_CherryPickNotSupported ==
    (pc = "done" /\ arg.cls = "CherryPick") =>
        /\ exc \in {"NotSupportedError", "NotImplementedError"}
        /\ IsNone(res)

\* C7 as stated: constructing a Graph with an orientation outside {LR, TB} or a
\* theme outside {base, forest, dark, default, neutral} fails at construction
\* time; no Graph object holds an invalid orientation or theme.
C7_GraphValidated ==
    (pc = "done" /\ arg.cls = "Graph") =>
        /\ ( \/ ("orientation" \in DOMAIN arg.kwargs
                    /\ arg.kwargs.orientation \notin ORIENTATIONS)
             \/ ("theme" \in DOMAIN arg.kwargs /\ arg.kwargs.theme \notin THEMES) )
           => (exc # "none" /\ IsNone(res))
        /\ ~IsNone(res) =>
              (Val(res).orientation \in ORIENTATIONS /\ Val(res).theme \in THEMES)

-----------------------------------------------------------------------------
(* Commit.from_git *)

\* The number of characters of the hash that from_git keeps as the id.
IdLen == 7

Min(a, b) == IF a < b THEN a ELSE b

\* s[0:n]
Prefix(s, n) == SubSeq(s, 1, Min(n, Len(s)))

\* sep.join(parts)
RECURSIVE Join(_, _)
Join(parts, sep) ==
    IF parts = <<>> THEN <<>>
    ELSE IF Len(parts) = 1 THEN parts[1]
    ELSE parts[1] \o sep \o Join(Tail(parts), sep)

\* The tag labels a repository may hold, in the order git lists them.
TagLabels == << <<"v", "1">>, <<"v", "2">> >>

\* repo.git.tag('--points-at', hexsha): the labels of the tags that point at the
\* commit, one per line, without the final line break.
GitTagPointsAt(repo, hexsha) ==
    LET PointsAt(l) == l \in DOMAIN repo.tags /\ repo.tags[l] = hexsha
    IN Join(SelectSeq(TagLabels, PointsAt), <<"\n">>)

\* Commit.from_git(src)
Commit_from_git(src) ==
    LET tag0 == GitTagPointsAt(src.repo, src.hexsha)
        tag == IF tag0 = <<>> THEN None ELSE Some(tag0)
    IN Commit(Some(Prefix(src.hexsha, IdLen)), Some(sNORMAL), tag)

HexChars == {"a", "f"}
Shas == [1..ShaLen -> HexChars]
\* A hash other than h: the commit a tag points at when it is not h.
OtherSha(h) == [h EXCEPT ![1] = IF h[1] = "a" THEN "f" ELSE "a"]

\* The tags of a repository: each label absent, at the commit h, or elsewhere.
TagsOf(h) ==
    WithKey(WithKey({NoKwargs}, TagLabels[1], {h, OtherSha(h)}),
            TagLabels[2], {h, OtherSha(h)})

InitFromGit ==
    /\ pc = "call"
    /\ arg \in UNION {{[hexsha |-> h, repo |-> [tags |-> t]] : t \in TagsOf(h)}
                      : h \in Shas}
    /\ res = None
    /\ exc = "none"
    /\ NoRepoLocals

\* Commit.from_git(arg)
FromGitCall ==
    /\ pc = "call"
    /\ res' = Some(Commit_from_git(arg))
    /\ pc' = "done"
    /\ UNCHANGED <<arg, exc, commits, branches, heads>>

NextFromGit == FromGitCall

SpecFromGit == InitFromGit /\ [][NextFromGit]_vars

\* The labels of the tags that point at the commit.
Pointing(src) ==
    {l \in DOMAIN src.repo.tags : src.repo.tags[l] = src.hexsha}

\* C8 as stated: Commit.from_git yields a Commit whose tag is the label of a tag
\* that points at the commit when one exists, and None when no tag points at it;
\* its id is the first 7 characters of the commit hash.
C8_TagOfCommit ==
    pc = "done" =>
        /\ Val(res).id = Some(SubSeq(arg.hexsha, 1, 7))
        /\ Pointing(arg) = {} => IsNone(Val(res).tag)
        /\ Pointing(arg) # {} => \E l \in Pointing(arg) : Val(res).tag = Some(l)

-----------------------------------------------------------------------------
(* ThemeVariables.dict *)

sNone == <<"N", "o", "n", "e">>

\* {}
EmptyDict == [x \in {} |-> None]

\* res.update(d), as the value of res afterwards.
update(r, d) ==
    [k \in DOMAIN r \cup DOMAIN d |-> IF k \in DOMAIN d THEN d[k] ELSE r[k]]

\* f"{size}px" of an Optional[int]
Px(size) == (IF IsNone(size) THEN sNone ELSE IntStr(Val(size))) \o sPx

\* res.update(d) without the test of the field.
UpdateAlways(field, r, d) == update(r, d)

\* `if field is not None: res.update(d)`, as the value of res afterwards.
UpdateIfNotNone(field, r, d) == IF IsNone(field) THEN r ELSE update(r, d)

\* ThemeVariables.dict(self). The values of a dict are Optionals, so that a
\* None stored under a key can be told from a string.
ThemeVariables_dict(self) ==
    LET r0 == EmptyDict
        r1 == IF IsNone(self.branch_color) THEN r0
              ELSE update(r0, Val(self.branch_color))
        r2 == IF IsNone(self.branch_label_color) THEN r1
              ELSE update(r1, Val(self.branch_label_color))
        r3 == UpdateIfNotNone(self.commit_label_color, r2,
                  [commitLabelColor |-> self.commit_label_color])
        r4 == UpdateIfNotNone(self.commit_background_color, r3,
                  [commitLabelBackground |-> self.commit_background_color])
        r5 == UpdateIfNotNone(self.commit_label_font_size, r4,
                  [commitLabelFontSize |-> Some(Px(self.commit_label_font_size))])
        r6 == UpdateIfNotNone(self.tag_label_font_size, r5,
                  [tagLabelFontSize |-> Some(Px(self.tag_label_font_size))])
        r7 == UpdateIfNotNone(self.tag_label_color, r6,
                  [tagLabelColor |-> self.tag_label_color])
        r8 == UpdateIfNotNone(self.tag_background_color, r7,
                  [tagLabelBackground |-> self.tag_background_color])
        r9 == UpdateIfNotNone(self.tag_border_color, r8,
                  [tagLabelBorder |-> self.tag_border_color])
    IN r9

Red == <<"#", "f", "0", "0">>
Blue == <<"#", "0", "0", "f">>

\* Branch colours and branch label colours, keyed as the docstrings key them.
BranchColors ==
    {EmptyDict, [git0 |-> Some(Red)], [git0 |-> Some(Red), git1 |-> Some(Blue)]}
BranchLabelColors ==
    {EmptyDict, [gitBranchLabel0 |-> Some(Blue)],
     [gitBranchLabel0 |-> Some(Blue), gitBranchLabel1 |-> Some(Red)]}

ThemeVariablesObjects ==
    [branch_color : Opt(BranchColors),
     branch_label_color : Opt(BranchLabelColors),
     commit_label_color : Opt({Red}),
     commit_background_color : Opt({Blue}),
     commit_label_font_size : Opt(0..MaxFontSize),
     tag_label_color : Opt({Red}),
     tag_background_color : Opt({Blue}),
     tag_border_color : Opt({Red}),
     tag_label_font_size : Opt(0..MaxFontSize)]

InitDict ==
    /\ pc = "call"
    /\ arg \in ThemeVariablesObjects
    /\ res = None
    /\ exc = "none"
    /\ NoRepoLocals

\* arg.dict()
DictCall ==
    /\ pc = "call"
    /\ res' = Some(ThemeVariables_dict(arg))
    /\ pc' = "done"
    /\ UNCHANGED <<arg, exc, commits, branches, heads>>

NextDict == DictCall

SpecDict == InitDict /\ [][NextDict]_vars

\* The key dict() gives each scalar field.
ScalarKey ==
    [commit_label_color |-> "commitLabelColor",
     commit_background_color |-> "commitLabelBackground",
     commit_label_font_size |-> "commitLabelFontSize",
     tag_label_color |-> "tagLabelColor",
     tag_background_color |-> "tagLabelBackground",
     tag_border_color |-> "tagLabelBorder",
     tag_label_font_size |-> "tagLabelFontSize"]

\* The entries of an Optional[dict]: none when it is None.
Entries(o) == IF IsNone(o) THEN EmptyDict ELSE Val(o)

\* C9: ThemeVariables.dict() is sparse: the mapping has the key of a scalar
\* field exactly when the field is not None, has exactly the entries of
\* branch_color and branch_label_color when those are set, has no key whose
\* value is None, and is empty when every field is unset.
C9_DictSparse ==
    pc = "done" =>
        LET d == Val(res)
            bc == Entries(arg.branch_color)
            blc == Entries(arg.branch_label_color)
        IN /\ \A f \in DOMAIN ScalarKey : ScalarKey[f] \in DOMAIN d <=> ~IsNone(arg[f])
           /\ \A k \in DOMAIN bc : k \in DOMAIN d /\ d[k] = bc[k]
           /\ \A k \in DOMAIN blc : k \in DOMAIN d /\ d[k] = blc[k]
           /\ DOMAIN d \subseteq
                 DOMAIN bc \cup DOMAIN blc \cup {ScalarKey[f] : f \in DOMAIN ScalarKey}
           /\ \A k \in DOMAIN d : ~IsNone(d[k])
           /\ (\A f \in DOMAIN arg : IsNone(arg[f])) => d = EmptyDict

\* dict() has returned for an object with branch colours and a font size of 0
\* set and the commit label colour unset.
C9_Witness ==
    /\ pc = "done"
    /\ ~IsNone(arg.branch_color)
    /\ DOMAIN Val(arg.branch_color) # {}
    /\ arg.commit_label_font_size = Some(0)
    /\ IsNone(arg.commit_label_color)
    /\ "commitLabelFontSize" \in DOMAIN Val(res)
    /\ "commitLabelColor" \notin DOMAIN Val(res)

-----------------------------------------------------------------------------
(* nodes_from_repo *)

\* A repository: its commits 1..n in commit-time order, the parents of each
\* (earlier commits, two at most), its local branch heads in the order
\* repo.heads lists them (by name), and the commit HEAD resolves to. A path
\* that holds no repository is [isrepo |-> FALSE].
ParentSets(c) == {P \in SUBSET (1..(c - 1)) : Cardinality(P) <= 2}

HeadNames == <<"dev", "main">>

\* The lists of heads: each name absent, or at a commit of 1..n.
RECURSIVE HeadLists(_, _)
HeadLists(names, n) ==
    IF names = <<>> THEN {<<>>}
    ELSE LET rest == HeadLists(Tail(names), n)
         IN rest \cup {<<[name |-> Head(names), commit |-> c]>> \o r
                       : c \in 1..n, r \in rest}

\* The parents of the commits 1..n.
Parents(n) == {f \in [1..n -> SUBSET (1..n)] : \A c \in 1..n : f[c] \in ParentSets(c)}

Repos ==
    UNION {[isrepo : {TRUE}, n : {n}, parents : Parents(n),
            heads : HeadLists(HeadNames, n), HEAD : 1..n] : n \in 1..MaxCommits}

\* The commits reachable from c, c included.
RECURSIVE Reachable(_, _)
Reachable(repo, c) ==
    {c} \cup UNION {Reachable(repo, p) : p \in repo.parents[c]}

\* The elements of a set of commits, latest first.
RECURSIVE LatestFirst(_)
LatestFirst(S) ==
    IF S = {} THEN <<>>
    ELSE LET m == CHOOSE x \in S : \A y \in S : y <= x
         IN <<m>> \o LatestFirst(S \ {m})

\* list(repo.iter_commits()): the commits reachable from HEAD, latest first.
iter_commits(repo) == LatestFirst(Reachable(repo, repo.HEAD))

\* str(head)
HeadStr(head) == head.name

InitRepo ==
    /\ pc = "call"
    /\ arg \in {[isrepo |-> FALSE]} \cup Repos
    /\ res = None
    /\ exc = "none"
    /\ NoRepoLocals

\* repo = git.Repo(str(path))
OpenRepo ==
    /\ pc = "call"
    /\ IF arg.isrepo
       THEN pc' = "iter_commits" /\ exc' = exc
       ELSE pc' = "done" /\ exc' = "InvalidGitRepositoryError"
    /\ UNCHANGED <<arg, res, commits, branches, heads>>

\* commits = list(repo.iter_commits()); branches = {}; the loop starts
IterCommits ==
    /\ pc = "iter_commits"
    /\ commits' = iter_commits(arg)
    /\ branches' = EmptyDict
    /\ heads' = arg.heads
    /\ pc' = "for_head"
    /\ UNCHANGED <<arg, res, exc>>

\* for head in repo.heads: branches[str(head)] = list()
ForHead ==
    /\ pc = "for_head"
    /\ heads # <<>>
    /\ branches' = update(branches, (HeadStr(Head(heads)) :> <<>>))
    /\ heads' = Tail(heads)
    /\ UNCHANGED <<pc, arg, res, exc, commits>>

\* The function ends without a return statement: it returns None.
Return ==
    /\ pc = "for_head"
    /\ heads = <<>>
    /\ res' = None
    /\ pc' = "done"
    /\ UNCHANGED <<arg, exc, commits, branches, heads>>

NextRepo == OpenRepo \/ IterCommits \/ ForHead \/ Return

SpecRepo == InitRepo /\ [][NextRepo]_vars

\* The operation sequence nodes_from_repo emitted: the list it returned.
Emitted == IF IsNone(res) THEN <<>> ELSE Val(res)
Returned == pc = "done" /\ exc = "none"

\* Whether op is the Commit or Merge operation of commit c.
OpFor(op, c) == op.cls \in {"Commit", "Merge"} /\ op.commit = c

\* Whether a is an ancestor of b.
Ancestor(repo, a, b) == a # b /\ a \in Reachable(repo, b)

\* The current branch before the operation at index i: the name of the latest
\* Checkout before i, the default branch when there is none.
Current(ops, i) ==
    LET before == {j \in 1..(i - 1) : ops[j].cls = "Checkout"}
    IN IF before = {} THEN "main"
       ELSE ops[CHOOSE j \in before : \A k \in before : k <= j].name

\* C1 as stated: for every pair of commits (A, B) of the repository where A is
\* an ancestor of B, the emitted sequence holds a Commit/Merge operation for A
\* and one for B, A's at a strictly smaller index than B's.
C1_TopologyPreserved ==
    Returned =>
        \A a, b \in Reachable(arg, arg.HEAD) :
            Ancestor(arg, a, b) =>
                \E i, j \in 1..Len(Emitted) :
                    i < j /\ OpFor(Emitted[i], a) /\ OpFor(Emitted[j], b)

\* C2 as stated: every branch of repo.heads appears in exactly one Branch
\* operation of the emitted sequence, and every Commit operation of a commit
\* attributed to a branch is emitted while that branch is the current branch.
C2_BranchComplete ==
    Returned =>
        /\ \A h \in 1..Len(arg.heads) :
              Cardinality({i \in 1..Len(Emitted) :
                              Emitted[i].cls = "Branch"
                              /\ Emitted[i].name = HeadStr(arg.heads[h])}) = 1
        /\ \A b \in DOMAIN branches : \A k \in 1..Len(branches[b]) :
              \A i \in 1..Len(Emitted) :
                  (Emitted[i].cls = "Commit" /\ OpFor(Emitted[i], branches[b][k]))
                      => Current(Emitted, i) = b

\* C3 as stated: at every Merge operation of the emitted sequence, the source
\* branch was introduced by a Branch operation at an earlier index and is not
\* the branch current at that point.
C3_MergeSourceDeclared ==
    Returned =>
        \A i \in 1..Len(Emitted) :
            Emitted[i].cls = "Merge" =>
                /\ \E j \in 1..(i - 1) :
                      Emitted[j].cls = "Branch" /\ Emitted[j].name = Emitted[i].branch
                /\ Emitted[i].branch # Current(Emitted, i)

\* A Merge operation has been emitted.
C3_MergeEmitted ==
    Returned /\ \E i \in 1..Len(Emitted) : Emitted[i].cls = "Merge"

\* C4 as stated: no Checkout of the emitted sequence names the branch that is
\* current immediately before it.
C4_NoRedundantCheckout ==
    Returned =>
        \A i \in 1..Len(Emitted) :
            Emitted[i].cls = "Checkout" => Emitted[i].name # Current(Emitted, i)

\* A Checkout operation has been emitted.
C4_CheckoutEmitted ==
    Returned /\ \E i \in 1..Len(Emitted) : Emitted[i].cls = "Checkout"

====
